---- MODULE Spec2Model ----
(***************************************************************************)
(* Dining-Out RSVP application (src/app.py, src/models.py, src/forms.py). *)
(*                                                                         *)
(* The persisted tables (rsvps, guests, seating_preferences), each         *)
(* browser's token cookie and Flask session, and one action per route      *)
(* handler.  Strings that the code converts (emails, names, reservation    *)
(* codes) are sequences of one-character strings, so that lower(), upper() *)
(* and split() are computed and not assumed.                               *)
(***************************************************************************)
EXTENDS Integers, Sequences, FiniteSets, TLC

VARIABLES
    rsvps,      \* table rsvps: id -> row, DOMAIN rsvps = the ids of the stored rows
    guests,     \* table guests: id -> row
    prefs,      \* table seating_preferences: rsvp_id -> ranked_ids (encoded)
    cookie,     \* per browser: the rsvp_token cookie, 0 when absent
    session,    \* per browser: the Flask session
    resp,       \* the last response: "ok" (a page or a redirect) or "error500"
    inflight    \* per browser: a request that has read and not yet committed

vars == <<rsvps, guests, prefs, cookie, session, resp, inflight>>

----------------------------------------------------------------------------
(* Bounds of the model *)

MaxRsvps == 2      \* largest reservation id the store hands out
MaxGuestId == 3    \* largest guest id the store hands out

Callers == {"u1", "u2"}

----------------------------------------------------------------------------
(* Strings *)

UpperLetters == <<"A","B","C","D","E","F","G","H","I","J","K","L","M",
                  "N","O","P","Q","R","S","T","U","V","W","X","Y","Z">>
LowerLetters == <<"a","b","c","d","e","f","g","h","i","j","k","l","m",
                  "n","o","p","q","r","s","t","u","v","w","x","y","z">>

\* the letters, as lower() and upper() map them; every other character maps to itself
LowerMap == [ch \in {UpperLetters[i] : i \in 1..26} |->
                LowerLetters[CHOOSE i \in 1..26 : UpperLetters[i] = ch]]
UpperMap == [ch \in {LowerLetters[i] : i \in 1..26} |->
                UpperLetters[CHOOSE i \in 1..26 : LowerLetters[i] = ch]]

LowerChar(ch) == IF ch \in DOMAIN LowerMap THEN LowerMap[ch] ELSE ch

UpperChar(ch) == IF ch \in DOMAIN UpperMap THEN UpperMap[ch] ELSE ch

\* str.lower()
Lower(s) == [i \in 1..Len(s) |-> LowerChar(s[i])]

\* str.upper()
Upper(s) == [i \in 1..Len(s) |-> UpperChar(s[i])]

\* str.endswith(suffix)
EndsWith(s, suffix) ==
    /\ Len(s) >= Len(suffix)
    /\ SubSeq(s, Len(s) - Len(suffix) + 1, Len(s)) = suffix

IsSpace(ch) == ch = " "

\* str.split(): the maximal runs of non-whitespace characters, in order
RECURSIVE SplitFrom(_, _, _)
SplitFrom(s, i, cur) ==
    IF i > Len(s)
    THEN IF cur = <<>> THEN <<>> ELSE <<cur>>
    ELSE IF IsSpace(s[i])
         THEN (IF cur = <<>> THEN <<>> ELSE <<cur>>) \o SplitFrom(s, i + 1, <<>>)
         ELSE SplitFrom(s, i + 1, Append(cur, s[i]))

Split(s) == SplitFrom(s, 1, <<>>)

\* str.strip() being empty or not: what DataRequired looks at
IsBlank(s) == \A i \in 1..Len(s) : IsSpace(s[i])

----------------------------------------------------------------------------
(* Input domains *)

WestPoint == <<"@","w","e","s","t","p","o","i","n","t",".","e","d","u">>

EmailA  == <<"a">> \o WestPoint
EmailA2 == <<"A">> \o WestPoint                \* the same address, other case
EmailB  == <<"b">> \o Upper(WestPoint)
EmailX  == <<"a","@","x",".","e","d","u">>     \* not a westpoint.edu address

EmailInputs == {EmailA, EmailA2, EmailB, EmailX}

NameJS == <<"j","o"," ","s","m">>
NameAL == <<"a","l">>
Names == {NameJS, NameAL}

\* random.choices(string.digits, k=4): the draws the model lets happen
DigitDraws == {<<"0","0","0","7">>, <<"4","2","4","2">>}

PaymentStatuses == {"not paid", "pending - cash", "pending - Venmo",
                    "cash", "Venmo", "guests changed - not paid"}

RsvpActions == {"none", "new", "modify", "delete", "other"}

----------------------------------------------------------------------------
(* models.py *)

\* generate_reservation_id(name), with the four random digits as a parameter
generate_reservation_id(name, digits) ==
    LET parts == Split(name)
        initials ==
            IF Len(parts) >= 2
            THEN Upper(<<parts[1][1], parts[2][1]>>)
            ELSE IF Len(parts) = 1 /\ Len(parts[1]) >= 2
                 THEN Upper(SubSeq(parts[1], 1, 2))
                 ELSE <<"X", "X">>
    IN initials \o digits

\* RSVP(name=, email=, num_guests=, reservation_id=): the column defaults
NewRsvp(name, email, num_guests, reservation_id) ==
    [reservation_id |-> reservation_id,
     name           |-> name,
     email          |-> email,
     num_guests     |-> num_guests,
     payment_status |-> "not paid",
     rsvp_token     |-> 0]

\* Guest(rsvp_id=, guest_number=) with the names the form gave
NewGuest(rsvp_id, guest_number, first_name, last_name) ==
    [rsvp_id      |-> rsvp_id,
     guest_number |-> guest_number,
     first_name   |-> first_name,
     last_name    |-> last_name]

Max(S) == CHOOSE x \in S : \A y \in S : y <= x
Min(S) == CHOOSE x \in S : \A y \in S : x <= y

\* INTEGER PRIMARY KEY of an SQLite table: one more than the largest stored id
NextId(table) == IF DOMAIN table = {} THEN 1 ELSE Max(DOMAIN table) + 1

\* the store's checks without the one on rsvps.email
UniqueOk_EmailNotChecked(t) ==
    \A i, j \in DOMAIN t :
        i # j =>
            /\ t[i].reservation_id # t[j].reservation_id
            /\ (t[i].rsvp_token # 0 => t[i].rsvp_token # t[j].rsvp_token)

\* unique=True on rsvps.email and rsvps.reservation_id, and the unique index on
\* rsvps.rsvp_token: what the store checks when a transaction commits
UniqueOk(t) ==
    \A i, j \in DOMAIN t :
        i # j =>
            /\ t[i].email # t[j].email
            /\ t[i].reservation_id # t[j].reservation_id
            /\ (t[i].rsvp_token # 0 => t[i].rsvp_token # t[j].rsvp_token)

\* rows of a table without those whose key is in ks
Without(table, ks) == [k \in DOMAIN table \ ks |-> table[k]]

\* rows of a table with row r stored under key k
With(table, k, r) == [x \in DOMAIN table \cup {k} |-> IF x = k THEN r ELSE table[x]]

\* a relationship without the cascade: the guests stay
CascadeGuests_None(g, rsvp_id) == g

\* cascade='all, delete-orphan' on RSVP.guests: the guests a deleted reservation takes along
CascadeGuests(g, rsvp_id) == Without(g, {k \in DOMAIN g : g[k].rsvp_id = rsvp_id})

\* the ownership cascade of the seating preference record
CascadePreference(p, rsvp_id) == Without(p, {rsvp_id})

----------------------------------------------------------------------------
(* Session and cookie helpers of app.py *)

EmptySession ==
    [pending_rsvp        |-> <<>>,    \* <<>> or <<[name, email, num_guests]>>
     rsvp_id_for_removal |-> 0,       \* 0: the key is absent
     guest_info_rsvp_id  |-> 0,       \* 0: the key is absent
     admin_authenticated |-> FALSE]

\* RSVP.query.filter_by(rsvp_token=...).first(), 0 for None
RsvpByToken(t, token) ==
    IF \E i \in DOMAIN t : t[i].rsvp_token = token
    THEN Min({i \in DOMAIN t : t[i].rsvp_token = token})
    ELSE 0

\* get_rsvp_from_cookie(): the id of the cookie's reservation, 0 for None
get_rsvp_from_cookie(c) ==
    IF cookie[c] # 0 THEN RsvpByToken(rsvps, cookie[c]) ELSE 0

\* RSVP.query.filter_by(email=...).first(), 0 for None
RsvpByEmail(t, email) ==
    IF \E i \in DOMAIN t : t[i].email = email
    THEN Min({i \in DOMAIN t : t[i].email = email})
    ELSE 0

\* secrets.token_urlsafe(32): a value no row and no browser holds
FreshToken(t) ==
    LET used == {t[i].rsvp_token : i \in DOMAIN t} \cup {cookie[c] : c \in Callers}
    IN Min({k \in 1..(Cardinality(used) + 1) : k \notin used})

\* ensure_rsvp_token(rsvp): the table after it
ensure_rsvp_token(t, id) ==
    IF t[id].rsvp_token = 0
    THEN [t EXCEPT ![id].rsvp_token = FreshToken(t)]
    ELSE t

\* set_rsvp_cookie(response, rsvp): the cookie value it sends
TokenAfterEnsure(t, id) == ensure_rsvp_token(t, id)[id].rsvp_token

----------------------------------------------------------------------------
(* forms.py *)

\* validate_westpoint_email
validate_westpoint_email(email) == EndsWith(Lower(email), WestPoint)

\* RSVPForm without the choices of num_guests
RSVPFormValid_AnyPartySize(method, name, email, num_guests) ==
    /\ method = "POST"
    /\ ~IsBlank(name)
    /\ ~IsBlank(email)
    /\ validate_westpoint_email(email)

\* RSVPForm.validate_on_submit(): a POST whose fields pass their validators
RSVPFormValid(method, name, email, num_guests) ==
    /\ method = "POST"
    /\ ~IsBlank(name)
    /\ ~IsBlank(email)
    /\ validate_westpoint_email(email)
    /\ num_guests \in {1, 2}

\* GuestInfoForm.validate_on_submit(): guest 1's names are required
GuestInfoFormValid(method, form) ==
    /\ method = "POST"
    /\ form.g1_first_name # ""
    /\ form.g1_last_name # ""

\* ReservationLookupForm.validate_on_submit()
LookupFormValid(method, lookup_value) ==
    /\ method = "POST"
    /\ ~IsBlank(lookup_value)

----------------------------------------------------------------------------
(* /rsvp *)

NoPlan == [kind |-> "none"]

\* what rsvp() decides from what it reads: lines 95-153 up to the writes
RsvpRead(c, action, method, name, email_in, num_guests, digits) ==
    LET cookie_rsvp == get_rsvp_from_cookie(c)
        existing_rsvp == IF action = "new" THEN 0 ELSE cookie_rsvp
        email == Lower(email_in)
        email_rsvp == RsvpByEmail(rsvps, email)
    IN  IF cookie_rsvp # 0 /\ action = "none"
        THEN [kind |-> "welcome_back"]
        ELSE IF action = "delete" /\ cookie_rsvp # 0
        THEN [kind |-> "delete", id |-> cookie_rsvp]
        ELSE IF ~RSVPFormValid(method, name, email_in, num_guests)
        THEN [kind |-> "form"]
        ELSE IF action = "modify" /\ existing_rsvp # 0
        THEN [kind |-> "modify", id |-> existing_rsvp,
              loaded |-> [name |-> rsvps[existing_rsvp].name,
                          email |-> rsvps[existing_rsvp].email,
                          num_guests |-> rsvps[existing_rsvp].num_guests],
              name |-> name, email |-> email, num_guests |-> num_guests]
        ELSE IF email_rsvp # 0 /\ (action = "new" \/ existing_rsvp = 0)
        THEN [kind |-> "pending",
              name |-> name, email |-> email, num_guests |-> num_guests]
        ELSE [kind |-> "create",
              name |-> name, email |-> email, num_guests |-> num_guests,
              reservation_id |-> generate_reservation_id(name, digits)]

\* the row an UPDATE of the attributes that differ from the loaded ones leaves
ModifiedRow(row, plan) ==
    [row EXCEPT
        !.name = IF plan.name # plan.loaded.name THEN plan.name ELSE @,
        !.email = IF plan.email # plan.loaded.email THEN plan.email ELSE @,
        !.num_guests = IF plan.num_guests # plan.loaded.num_guests
                       THEN plan.num_guests ELSE @]

\* the commit of a modify keeps the store's unique constraints
ModifyCommits(plan) ==
    /\ plan.id \in DOMAIN rsvps
    /\ UniqueOk([rsvps EXCEPT ![plan.id] = ModifiedRow(rsvps[plan.id], plan)])

\* the commit of a create keeps the store's unique constraints
CreateCommits(plan) ==
    UniqueOk(With(rsvps, NextId(rsvps),
                  NewRsvp(plan.name, plan.email, plan.num_guests, plan.reservation_id)))

\* the writes of rsvp(), and its response
\* lines 105-110 with a delete that also clears every stored ranking
DeleteRsvp_ClearsRankings(c, id) ==
    /\ rsvps' = Without(rsvps, {id})
    /\ guests' = CascadeGuests(guests, id)
    /\ prefs' = <<>>
    /\ cookie' = [cookie EXCEPT ![c] = 0]
    /\ resp' = "ok"
    /\ UNCHANGED session

\* lines 105-110: the row goes with what it owns, and the cookie is deleted
DeleteRsvp(c, id) ==
    /\ rsvps' = Without(rsvps, {id})
    /\ guests' = CascadeGuests(guests, id)
    /\ prefs' = CascadePreference(prefs, id)
    /\ cookie' = [cookie EXCEPT ![c] = 0]
    /\ resp' = "ok"
    /\ UNCHANGED session

RsvpWrite(c, plan) ==
    CASE plan.kind = "welcome_back" ->
            /\ resp' = "ok"
            /\ UNCHANGED <<rsvps, guests, prefs, cookie, session>>
      [] plan.kind = "form" ->
            /\ resp' = "ok"
            /\ UNCHANGED <<rsvps, guests, prefs, cookie, session>>
      [] plan.kind = "delete" -> DeleteRsvp(c, plan.id)
      [] plan.kind = "modify" ->
            IF ModifyCommits(plan)
            THEN LET t == [rsvps EXCEPT ![plan.id] = ModifiedRow(rsvps[plan.id], plan)]
                 IN /\ rsvps' = ensure_rsvp_token(t, plan.id)
                    /\ cookie' = [cookie EXCEPT ![c] = TokenAfterEnsure(t, plan.id)]
                    /\ resp' = "ok"
                    /\ UNCHANGED <<guests, prefs, session>>
            ELSE /\ resp' = "error500"
                 /\ UNCHANGED <<rsvps, guests, prefs, cookie, session>>
      [] plan.kind = "pending" ->
            /\ session' = [session EXCEPT ![c].pending_rsvp =
                              <<[name |-> plan.name, email |-> plan.email,
                                 num_guests |-> plan.num_guests]>>]
            /\ resp' = "ok"
            /\ UNCHANGED <<rsvps, guests, prefs, cookie>>
      [] plan.kind = "create" ->
            /\ NextId(rsvps) <= MaxRsvps
            /\ IF CreateCommits(plan)
               THEN LET id == NextId(rsvps)
                        t == With(rsvps, id,
                                  NewRsvp(plan.name, plan.email, plan.num_guests,
                                          plan.reservation_id))
                    IN /\ rsvps' = ensure_rsvp_token(t, id)
                       /\ cookie' = [cookie EXCEPT ![c] = TokenAfterEnsure(t, id)]
                       /\ resp' = "ok"
                       /\ UNCHANGED <<guests, prefs, session>>
               ELSE /\ resp' = "error500"
                    /\ UNCHANGED <<rsvps, guests, prefs, cookie, session>>

\* rsvp(): one request, read and written without another request in between
Rsvp(c, action, method, name, email_in, num_guests, digits) ==
    /\ inflight[c] = NoPlan
    /\ RsvpWrite(c, RsvpRead(c, action, method, name, email_in, num_guests, digits))
    /\ UNCHANGED inflight

\* rsvp() up to its first write: the request has read the store
RsvpBegin(c, action, method, name, email_in, num_guests, digits) ==
    /\ inflight[c] = NoPlan
    /\ inflight' = [inflight EXCEPT ![c] =
                       RsvpRead(c, action, method, name, email_in, num_guests, digits)]
    /\ UNCHANGED <<rsvps, guests, prefs, cookie, session, resp>>

\* rsvp() from its first write on: the request commits what it decided
RsvpFinish(c) ==
    /\ inflight[c] # NoPlan
    /\ inflight[c].kind \notin {"lookup", "guest_info", "remove"}
    /\ RsvpWrite(c, inflight[c])
    /\ inflight' = [inflight EXCEPT ![c] = NoPlan]

----------------------------------------------------------------------------
(* /confirm-update *)

\* confirm_update() with a cancel that keeps pending_rsvp in the session
ConfirmUpdate_CancelKeepsPending(c, method, choice) ==
    /\ inflight[c] = NoPlan
    /\ UNCHANGED <<guests, prefs, inflight>>
    /\ IF session[c].pending_rsvp = <<>>
       THEN /\ resp' = "ok"
            /\ UNCHANGED <<rsvps, cookie, session>>
       ELSE LET pending == session[c].pending_rsvp[1]
                existing_rsvp == RsvpByEmail(rsvps, pending.email)
            IN  IF existing_rsvp = 0
                THEN /\ session' = [session EXCEPT ![c].pending_rsvp = <<>>]
                     /\ resp' = "ok"
                     /\ UNCHANGED <<rsvps, cookie>>
                ELSE IF method = "POST" /\ choice = "update"
                THEN LET old_guest_count == rsvps[existing_rsvp].num_guests
                         new_guest_count == pending.num_guests
                         t == [rsvps EXCEPT ![existing_rsvp].name = pending.name,
                                            ![existing_rsvp].num_guests = pending.num_guests]
                     IN  IF new_guest_count < old_guest_count
                         THEN /\ rsvps' = t
                              /\ session' = [session EXCEPT
                                                ![c].pending_rsvp = <<>>,
                                                ![c].rsvp_id_for_removal = existing_rsvp]
                              /\ resp' = "ok"
                              /\ UNCHANGED cookie
                         ELSE /\ rsvps' = ensure_rsvp_token(t, existing_rsvp)
                              /\ session' = [session EXCEPT ![c].pending_rsvp = <<>>]
                              /\ cookie' = [cookie EXCEPT
                                               ![c] = TokenAfterEnsure(t, existing_rsvp)]
                              /\ resp' = "ok"
                ELSE IF method = "POST" /\ choice = "cancel"
                THEN /\ resp' = "ok"
                     /\ UNCHANGED <<rsvps, cookie, session>>
                ELSE /\ resp' = "ok"
                     /\ UNCHANGED <<rsvps, cookie, session>>

\* confirm_update() with an update that flags the payment when the party grows,
\* the way add_guest() does
ConfirmUpdate_GrowthFlagsPayment(c, method, choice) ==
    /\ inflight[c] = NoPlan
    /\ UNCHANGED <<guests, prefs, inflight>>
    /\ IF session[c].pending_rsvp = <<>>
       THEN /\ resp' = "ok"
            /\ UNCHANGED <<rsvps, cookie, session>>
       ELSE LET pending == session[c].pending_rsvp[1]
                existing_rsvp == RsvpByEmail(rsvps, pending.email)
            IN  IF existing_rsvp = 0
                THEN /\ session' = [session EXCEPT ![c].pending_rsvp = <<>>]
                     /\ resp' = "ok"
                     /\ UNCHANGED <<rsvps, cookie>>
                ELSE IF method = "POST" /\ choice = "update"
                THEN LET old_guest_count == rsvps[existing_rsvp].num_guests
                         new_guest_count == pending.num_guests
                         t == [rsvps EXCEPT
                                  ![existing_rsvp].name = pending.name,
                                  ![existing_rsvp].num_guests = pending.num_guests,
                                  ![existing_rsvp].payment_status =
                                      IF new_guest_count > old_guest_count /\ @ # "not paid"
                                      THEN "guests changed - not paid" ELSE @]
                     IN  IF new_guest_count < old_guest_count
                         THEN /\ rsvps' = t
                              /\ session' = [session EXCEPT
                                                ![c].pending_rsvp = <<>>,
                                                ![c].rsvp_id_for_removal = existing_rsvp]
                              /\ resp' = "ok"
                              /\ UNCHANGED cookie
                         ELSE /\ rsvps' = ensure_rsvp_token(t, existing_rsvp)
                              /\ session' = [session EXCEPT ![c].pending_rsvp = <<>>]
                              /\ cookie' = [cookie EXCEPT
                                               ![c] = TokenAfterEnsure(t, existing_rsvp)]
                              /\ resp' = "ok"
                ELSE IF method = "POST" /\ choice = "cancel"
                THEN /\ session' = [session EXCEPT ![c].pending_rsvp = <<>>]
                     /\ resp' = "ok"
                     /\ UNCHANGED <<rsvps, cookie>>
                ELSE /\ resp' = "ok"
                     /\ UNCHANGED <<rsvps, cookie, session>>

\* confirm_update(): the merge decision on the reservation holding the pending email
ConfirmUpdate(c, method, choice) ==
    /\ inflight[c] = NoPlan
    /\ UNCHANGED <<guests, prefs, inflight>>
    /\ IF session[c].pending_rsvp = <<>>
       THEN /\ resp' = "ok"
            /\ UNCHANGED <<rsvps, cookie, session>>
       ELSE LET pending == session[c].pending_rsvp[1]
                existing_rsvp == RsvpByEmail(rsvps, pending.email)
            IN  IF existing_rsvp = 0
                THEN /\ session' = [session EXCEPT ![c].pending_rsvp = <<>>]
                     /\ resp' = "ok"
                     /\ UNCHANGED <<rsvps, cookie>>
                ELSE IF method = "POST" /\ choice = "update"
                THEN LET old_guest_count == rsvps[existing_rsvp].num_guests
                         new_guest_count == pending.num_guests
                         t == [rsvps EXCEPT ![existing_rsvp].name = pending.name,
                                            ![existing_rsvp].num_guests = pending.num_guests]
                     IN  IF new_guest_count < old_guest_count
                         THEN /\ rsvps' = t
                              /\ session' = [session EXCEPT
                                                ![c].pending_rsvp = <<>>,
                                                ![c].rsvp_id_for_removal = existing_rsvp]
                              /\ resp' = "ok"
                              /\ UNCHANGED cookie
                         ELSE /\ rsvps' = ensure_rsvp_token(t, existing_rsvp)
                              /\ session' = [session EXCEPT ![c].pending_rsvp = <<>>]
                              /\ cookie' = [cookie EXCEPT
                                               ![c] = TokenAfterEnsure(t, existing_rsvp)]
                              /\ resp' = "ok"
                ELSE IF method = "POST" /\ choice = "cancel"
                THEN /\ session' = [session EXCEPT ![c].pending_rsvp = <<>>]
                     /\ resp' = "ok"
                     /\ UNCHANGED <<rsvps, cookie>>
                ELSE /\ resp' = "ok"
                     /\ UNCHANGED <<rsvps, cookie, session>>

----------------------------------------------------------------------------
(* Guest queries *)

\* Guest.query.filter_by(rsvp_id=, guest_number=).first(), 0 for None
GuestBySlot(g, rsvp_id, guest_number) ==
    LET found == {k \in DOMAIN g : g[k].rsvp_id = rsvp_id /\ g[k].guest_number = guest_number}
    IN IF found = {} THEN 0 ELSE Min(found)

\* a removal that never renumbers
Renumber_Skipped(g, rsvp_id, guest_number_removed) == g

\* "If guest 1 was removed and guest 2 exists, renumber guest 2 to guest 1"
Renumber(g, rsvp_id, guest_number_removed) ==
    LET guest_2 == GuestBySlot(g, rsvp_id, 2)
    IN IF guest_number_removed = 1 /\ guest_2 # 0
       THEN [g EXCEPT ![guest_2].guest_number = 1]
       ELSE g

\* a form or query value read as an integer: absent, a decimal number, or other text
FormEmpty == [kind |-> "empty", val |-> 0]
FormJunk == [kind |-> "junk", val |-> 0]
FormInt(n) == [kind |-> "int", val |-> n]

----------------------------------------------------------------------------
(* /remove-guest: the removal flow a merge that lowers the party size queues *)

remove_guest(c, method, guest_id) ==
    /\ inflight[c] = NoPlan
    /\ UNCHANGED <<prefs, inflight>>
    /\ LET rsvp_id == session[c].rsvp_id_for_removal
       IN  IF rsvp_id = 0
           THEN /\ resp' = "ok"
                /\ UNCHANGED <<rsvps, guests, cookie, session>>
           ELSE IF rsvp_id \notin DOMAIN rsvps
           THEN /\ session' = [session EXCEPT ![c].rsvp_id_for_removal = 0]
                /\ resp' = "ok"
                /\ UNCHANGED <<rsvps, guests, cookie>>
           ELSE IF method # "POST"
           THEN /\ resp' = "ok"
                /\ UNCHANGED <<rsvps, guests, cookie, session>>
           ELSE IF guest_id.kind = "junk"
           THEN \* int(guest_to_remove_id) raises ValueError
                /\ resp' = "error500"
                /\ UNCHANGED <<rsvps, guests, cookie, session>>
           ELSE /\ guests' =
                     IF /\ guest_id.kind = "int"
                        /\ guest_id.val \in DOMAIN guests
                        /\ guests[guest_id.val].rsvp_id = rsvp_id
                     THEN Renumber(Without(guests, {guest_id.val}), rsvp_id,
                                   guests[guest_id.val].guest_number)
                     ELSE guests
                /\ session' = [session EXCEPT ![c].rsvp_id_for_removal = 0]
                /\ rsvps' = ensure_rsvp_token(rsvps, rsvp_id)
                /\ cookie' = [cookie EXCEPT ![c] = TokenAfterEnsure(rsvps, rsvp_id)]
                /\ resp' = "ok"

----------------------------------------------------------------------------
(* /admin-login, /mark-payment, /payment-tracking *)

\* admin_login(): password_ok says whether the password equals ADMIN_PASSWORD
admin_login(c, method, password_ok) ==
    /\ inflight[c] = NoPlan
    /\ UNCHANGED <<rsvps, guests, prefs, cookie, inflight>>
    /\ IF method = "POST" /\ password_ok
       THEN /\ session' = [session EXCEPT ![c].admin_authenticated = TRUE]
            /\ resp' = "ok"
       ELSE /\ resp' = "ok"
            /\ UNCHANGED session

\* the reservation mark_payment() resolves: the cookie's, else the session's
MarkPaymentRsvp(c) ==
    IF get_rsvp_from_cookie(c) # 0
    THEN get_rsvp_from_cookie(c)
    ELSE IF session[c].guest_info_rsvp_id \in DOMAIN rsvps
         THEN session[c].guest_info_rsvp_id
         ELSE 0

\* mark_payment() that stores the method itself, without the 'pending - ' prefix
mark_payment_StoresMethod(c, payment_method) ==
    /\ inflight[c] = NoPlan
    /\ UNCHANGED <<guests, prefs, cookie, session, inflight>>
    /\ resp' = "ok"
    /\ LET rsvp == MarkPaymentRsvp(c)
       IN IF rsvp # 0 /\ payment_method \in {"cash", "Venmo"}
          THEN rsvps' = [rsvps EXCEPT ![rsvp].payment_status = payment_method]
          ELSE UNCHANGED rsvps

mark_payment(c, payment_method) ==
    /\ inflight[c] = NoPlan
    /\ UNCHANGED <<guests, prefs, cookie, session, inflight>>
    /\ resp' = "ok"
    /\ LET rsvp == MarkPaymentRsvp(c)
       IN IF rsvp # 0 /\ payment_method \in {"cash", "Venmo"}
          THEN rsvps' = [rsvps EXCEPT ![rsvp].payment_status =
                            IF payment_method = "cash" THEN "pending - cash"
                                                       ELSE "pending - Venmo"]
          ELSE UNCHANGED rsvps

\* require_admin: the decorated handler runs only in an authenticated session
require_admin(c) == session[c].admin_authenticated

\* payment_tracking() without the require_admin decorator
payment_tracking_NoAdminCheck(c, method, rsvp_id, new_status) ==
    /\ inflight[c] = NoPlan
    /\ UNCHANGED <<guests, prefs, cookie, session, inflight>>
    /\ IF method # "POST"
       THEN /\ resp' = "ok"
            /\ UNCHANGED rsvps
       ELSE IF rsvp_id.kind = "junk" /\ new_status \in PaymentStatuses
       THEN /\ resp' = "error500"
            /\ UNCHANGED rsvps
       ELSE /\ resp' = "ok"
            /\ IF /\ rsvp_id.kind = "int"
                  /\ new_status \in PaymentStatuses
                  /\ rsvp_id.val \in DOMAIN rsvps
               THEN rsvps' = [rsvps EXCEPT ![rsvp_id.val].payment_status = new_status]
               ELSE UNCHANGED rsvps

payment_tracking(c, method, rsvp_id, new_status) ==
    /\ inflight[c] = NoPlan
    /\ UNCHANGED <<guests, prefs, cookie, session, inflight>>
    /\ IF ~require_admin(c)
       THEN /\ resp' = "ok"
            /\ UNCHANGED rsvps
       ELSE IF method # "POST"
       THEN /\ resp' = "ok"
            /\ UNCHANGED rsvps
       ELSE IF rsvp_id.kind = "junk" /\ new_status \in PaymentStatuses
       THEN \* int(rsvp_id) raises ValueError
            /\ resp' = "error500"
            /\ UNCHANGED rsvps
       ELSE /\ resp' = "ok"
            /\ IF /\ rsvp_id.kind = "int"
                  /\ new_status \in PaymentStatuses
                  /\ rsvp_id.val \in DOMAIN rsvps
               THEN rsvps' = [rsvps EXCEPT ![rsvp_id.val].payment_status = new_status]
               ELSE UNCHANGED rsvps

----------------------------------------------------------------------------
(* /guest-info *)

\* str.strip()
RECURSIVE Strip(_)
Strip(s) ==
    IF s = <<>> THEN s
    ELSE IF IsSpace(s[1]) THEN Strip(Tail(s))
    ELSE IF IsSpace(s[Len(s)]) THEN Strip(SubSeq(s, 1, Len(s) - 1))
    ELSE s

\* the lookup without .upper() and .lower()
LookupRsvp_NoCaseFold(t, lookup_value) ==
    LET found == {i \in DOMAIN t : \/ t[i].reservation_id = lookup_value
                                   \/ t[i].email = lookup_value}
    IN IF found = {} THEN 0 ELSE Min(found)

\* the explicit lookup: reservation code (upper-cased) or email (lower-cased), first match
LookupRsvp(t, lookup_value) ==
    LET found == {i \in DOMAIN t : \/ t[i].reservation_id = Upper(lookup_value)
                                   \/ t[i].email = Lower(lookup_value)}
    IN IF found = {} THEN 0 ELSE Min(found)

\* the reservation guest_info() resolves before it falls back to the lookup form
\* (lines 337-353), 0 for None
GuestInfoRsvp(c, rsvp_id_param) ==
    LET from_cookie == get_rsvp_from_cookie(c)
        after_param ==
            IF rsvp_id_param.kind = "int"
            THEN IF rsvp_id_param.val \in DOMAIN rsvps THEN rsvp_id_param.val ELSE 0
            ELSE from_cookie
        session_id ==
            IF after_param # 0 /\ rsvp_id_param.kind = "int"
            THEN after_param
            ELSE session[c].guest_info_rsvp_id
    IN  IF after_param = 0 /\ session_id # 0
        THEN IF session_id \in DOMAIN rsvps THEN session_id ELSE 0
        ELSE after_param

\* session['guest_info_rsvp_id'] after lines 337-353
GuestInfoSessionId(c, rsvp_id_param) ==
    LET from_cookie == get_rsvp_from_cookie(c)
        after_param ==
            IF rsvp_id_param.kind = "int"
            THEN IF rsvp_id_param.val \in DOMAIN rsvps THEN rsvp_id_param.val ELSE 0
            ELSE from_cookie
        session_id ==
            IF after_param # 0 /\ rsvp_id_param.kind = "int"
            THEN after_param
            ELSE session[c].guest_info_rsvp_id
    IN  IF after_param = 0 /\ session_id # 0 /\ session_id \notin DOMAIN rsvps
        THEN 0
        ELSE session_id

\* the upsert without the test of the party size
UpsertGuests_AnySize(g, rsvp, num_guests, form) ==
    LET guest1 == GuestBySlot(g, rsvp, 1)
        guest2 == GuestBySlot(g, rsvp, 2)
        g1 == IF guest1 = 0
              THEN With(g, NextId(g),
                        NewGuest(rsvp, 1, form.g1_first_name, form.g1_last_name))
              ELSE [g EXCEPT ![guest1].first_name = form.g1_first_name,
                             ![guest1].last_name = form.g1_last_name]
    IN  IF form.g2_first_name # "" /\ form.g2_last_name # ""
        THEN IF guest2 = 0
             THEN With(g1, NextId(g1),
                       NewGuest(rsvp, 2, form.g2_first_name, form.g2_last_name))
             ELSE [g1 EXCEPT ![guest2].first_name = form.g2_first_name,
                             ![guest2].last_name = form.g2_last_name]
        ELSE g1

\* lines 417-444: the guests table after a valid submission for reservation rsvp
UpsertGuests(g, rsvp, num_guests, form) ==
    LET guest1 == GuestBySlot(g, rsvp, 1)
        guest2 == GuestBySlot(g, rsvp, 2)
        g1 == IF guest1 = 0
              THEN With(g, NextId(g),
                        NewGuest(rsvp, 1, form.g1_first_name, form.g1_last_name))
              ELSE [g EXCEPT ![guest1].first_name = form.g1_first_name,
                             ![guest1].last_name = form.g1_last_name]
    IN  IF num_guests = 2 /\ form.g2_first_name # "" /\ form.g2_last_name # ""
        THEN IF guest2 = 0
             THEN With(g1, NextId(g1),
                       NewGuest(rsvp, 2, form.g2_first_name, form.g2_last_name))
             ELSE [g1 EXCEPT ![guest2].first_name = form.g2_first_name,
                             ![guest2].last_name = form.g2_last_name]
        ELSE g1

guest_info(c, rsvp_id_param, method, lookup_value, action, form) ==
    /\ inflight[c] = NoPlan
    /\ UNCHANGED <<prefs, inflight>>
    /\ LET rsvp == GuestInfoRsvp(c, rsvp_id_param)
           session_id == GuestInfoSessionId(c, rsvp_id_param)
       IN  IF rsvp = 0
           THEN LET found == LookupRsvp(rsvps, Strip(lookup_value))
                IN  IF LookupFormValid(method, lookup_value) /\ found # 0
                    THEN /\ session' = [session EXCEPT ![c].guest_info_rsvp_id = found]
                         /\ rsvps' = ensure_rsvp_token(rsvps, found)
                         /\ cookie' = [cookie EXCEPT ![c] = TokenAfterEnsure(rsvps, found)]
                         /\ resp' = "ok"
                         /\ UNCHANGED guests
                    ELSE /\ session' = [session EXCEPT ![c].guest_info_rsvp_id = session_id]
                         /\ resp' = "ok"
                         /\ UNCHANGED <<rsvps, guests, cookie>>
           ELSE /\ session' = [session EXCEPT ![c].guest_info_rsvp_id = session_id]
                /\ UNCHANGED <<rsvps, cookie>>
                /\ IF GuestBySlot(guests, rsvp, 1) # 0 /\ action # "edit"
                   THEN /\ resp' = "ok"
                        /\ UNCHANGED guests
                   ELSE IF GuestInfoFormValid(method, form)
                   THEN LET g == UpsertGuests(guests, rsvp, rsvps[rsvp].num_guests, form)
                        IN /\ DOMAIN g \subseteq 1..MaxGuestId
                           /\ guests' = g
                           /\ resp' = "ok"
                   ELSE /\ resp' = "ok"
                        /\ UNCHANGED guests

\* guest_info() lines 356-366 of a successful lookup: the request has loaded the
\* row it found, rsvp_token included
GuestInfoLookupBegin(c, lookup_value) ==
    LET found == LookupRsvp(rsvps, Strip(lookup_value))
    IN  /\ inflight[c] = NoPlan
        /\ GuestInfoRsvp(c, FormEmpty) = 0
        /\ LookupFormValid("POST", lookup_value)
        /\ found # 0
        /\ inflight' = [inflight EXCEPT ![c] =
                           [kind |-> "lookup", id |-> found,
                            loaded |-> rsvps[found].rsvp_token]]
        /\ UNCHANGED <<rsvps, guests, prefs, cookie, session, resp>>

\* guest_info() lines 368-373: ensure_rsvp_token() tests the token the request
\* loaded and, when that is absent, commits a new one (an UPDATE of a row that is
\* gone raises StaleDataError)
GuestInfoLookupFinish(c) ==
    LET plan == inflight[c]
    IN  /\ plan # NoPlan
        /\ plan.kind = "lookup"
        /\ inflight' = [inflight EXCEPT ![c] = NoPlan]
        /\ UNCHANGED <<guests, prefs>>
        /\ IF plan.loaded # 0
           THEN /\ session' = [session EXCEPT ![c].guest_info_rsvp_id = plan.id]
                /\ cookie' = [cookie EXCEPT ![c] = plan.loaded]
                /\ resp' = "ok"
                /\ UNCHANGED rsvps
           ELSE IF plan.id \notin DOMAIN rsvps
           THEN /\ resp' = "error500"
                /\ session' = [session EXCEPT ![c].guest_info_rsvp_id = plan.id]
                /\ UNCHANGED <<rsvps, cookie>>
           ELSE LET token == FreshToken(rsvps)
                IN /\ rsvps' = [rsvps EXCEPT ![plan.id].rsvp_token = token]
                   /\ cookie' = [cookie EXCEPT ![c] = token]
                   /\ session' = [session EXCEPT ![c].guest_info_rsvp_id = plan.id]
                   /\ resp' = "ok"

\* guest_info() lines 337-416 of a submission that reaches line 417: the request
\* has resolved its reservation (the session key stays as it is then) and loaded
\* the reservation and its guests at slots 1 and 2
GuestInfoBegin(c, action, form) ==
    LET rsvp == GuestInfoRsvp(c, FormEmpty)
        guest1 == GuestBySlot(guests, rsvp, 1)
        guest2 == GuestBySlot(guests, rsvp, 2)
    IN  /\ inflight[c] = NoPlan
        /\ rsvp # 0
        /\ guest1 = 0 \/ action = "edit"
        /\ GuestInfoFormValid("POST", form)
        /\ inflight' = [inflight EXCEPT ![c] =
                           [kind |-> "guest_info", rsvp |-> rsvp,
                            num_guests |-> rsvps[rsvp].num_guests,
                            guest1 |-> guest1,
                            loaded1 |-> IF guest1 # 0 THEN <<guests[guest1]>> ELSE <<>>,
                            guest2 |-> guest2,
                            loaded2 |-> IF guest2 # 0 THEN <<guests[guest2]>> ELSE <<>>,
                            form |-> form]]
        /\ UNCHANGED <<rsvps, guests, prefs, cookie, session, resp>>

\* the row an UPDATE of the name columns that differ from the loaded ones leaves
GuestUpdated(row, loaded, first_name, last_name) ==
    [row EXCEPT !.first_name = IF first_name # loaded.first_name THEN first_name ELSE @,
                !.last_name = IF last_name # loaded.last_name THEN last_name ELSE @]

\* lines 431-432 on what the request loaded and was sent: guest 2 is written
GuestInfoWritesGuest2(plan) ==
    /\ plan.num_guests = 2
    /\ plan.form.g2_first_name # ""
    /\ plan.form.g2_last_name # ""

\* the flush has an UPDATE for a loaded guest whose row is gone (StaleDataError)
GuestInfoStale(g, plan) ==
    \/ /\ plan.guest1 # 0
       /\ plan.guest1 \notin DOMAIN g
       /\ GuestUpdated(plan.loaded1[1], plan.loaded1[1],
                       plan.form.g1_first_name, plan.form.g1_last_name) # plan.loaded1[1]
    \/ /\ GuestInfoWritesGuest2(plan)
       /\ plan.guest2 # 0
       /\ plan.guest2 \notin DOMAIN g
       /\ GuestUpdated(plan.loaded2[1], plan.loaded2[1],
                       plan.form.g2_first_name, plan.form.g2_last_name) # plan.loaded2[1]

\* lines 419-444 on the guests the request loaded: a guest it did not find is
\* inserted, a guest it found is updated where the form differs from what it loaded
GuestInfoFlush(g, plan) ==
    LET form == plan.form
        g1 == IF plan.guest1 = 0
              THEN With(g, NextId(g),
                        NewGuest(plan.rsvp, 1, form.g1_first_name, form.g1_last_name))
              ELSE IF plan.guest1 \in DOMAIN g
              THEN [g EXCEPT ![plan.guest1] =
                       GuestUpdated(@, plan.loaded1[1],
                                    form.g1_first_name, form.g1_last_name)]
              ELSE g
    IN  IF ~GuestInfoWritesGuest2(plan) THEN g1
        ELSE IF plan.guest2 = 0
        THEN With(g1, NextId(g1),
                  NewGuest(plan.rsvp, 2, form.g2_first_name, form.g2_last_name))
        ELSE IF plan.guest2 \in DOMAIN g1
        THEN [g1 EXCEPT ![plan.guest2] =
                 GuestUpdated(@, plan.loaded2[1], form.g2_first_name, form.g2_last_name)]
        ELSE g1

\* guest_info() line 444: the commit of what the request decided on what it loaded
GuestInfoFinish(c) ==
    LET plan == inflight[c]
    IN  /\ plan # NoPlan
        /\ plan.kind = "guest_info"
        /\ inflight' = [inflight EXCEPT ![c] = NoPlan]
        /\ UNCHANGED <<rsvps, prefs, cookie, session>>
        /\ IF GuestInfoStale(guests, plan)
           THEN /\ resp' = "error500"
                /\ UNCHANGED guests
           ELSE /\ DOMAIN GuestInfoFlush(guests, plan) \subseteq 1..MaxGuestId
                /\ guests' = GuestInfoFlush(guests, plan)
                /\ resp' = "ok"

----------------------------------------------------------------------------
(* /remove-guest/<guest_number>, /remove-guest-2, /add-guest *)

\* remove_guest_by_number() without "rsvp.num_guests = 1"
remove_guest_by_number_KeepsSize(c, guest_number) ==
    /\ inflight[c] = NoPlan
    /\ UNCHANGED <<prefs, cookie, session, inflight>>
    /\ LET rsvp == get_rsvp_from_cookie(c)
       IN  IF rsvp = 0 \/ guest_number \notin {1, 2}
           THEN /\ resp' = "ok"
                /\ UNCHANGED <<rsvps, guests>>
           ELSE LET guest == GuestBySlot(guests, rsvp, guest_number)
                    deleted == IF guest # 0 THEN Without(guests, {guest}) ELSE guests
                IN /\ resp' = "ok"
                   /\ guests' = Renumber(deleted, rsvp, guest_number)
                   /\ UNCHANGED rsvps

remove_guest_by_number(c, guest_number) ==
    /\ inflight[c] = NoPlan
    /\ UNCHANGED <<prefs, cookie, session, inflight>>
    /\ LET rsvp == get_rsvp_from_cookie(c)
       IN  IF rsvp = 0 \/ guest_number \notin {1, 2}
           THEN /\ resp' = "ok"
                /\ UNCHANGED <<rsvps, guests>>
           ELSE LET guest == GuestBySlot(guests, rsvp, guest_number)
                    deleted == IF guest # 0 THEN Without(guests, {guest}) ELSE guests
                IN /\ resp' = "ok"
                   /\ guests' = Renumber(deleted, rsvp, guest_number)
                   /\ rsvps' = [rsvps EXCEPT ![rsvp].num_guests = 1]

remove_guest_2(c) == remove_guest_by_number(c, 2)

\* remove_guest_by_number() lines 467-478 of a request for slot 1 or 2: the
\* request has loaded the cookie's reservation and the guest at the slot; for a
\* slot 1 that is empty, line 484 loads the guest at slot 2 as well
RemoveGuestBegin(c, guest_number) ==
    LET rsvp == get_rsvp_from_cookie(c)
        guest == GuestBySlot(guests, rsvp, guest_number)
    IN  /\ inflight[c] = NoPlan
        /\ rsvp # 0
        /\ guest_number \in {1, 2}
        /\ inflight' = [inflight EXCEPT ![c] =
                           [kind |-> "remove", rsvp |-> rsvp,
                            guest_number |-> guest_number,
                            num_guests |-> rsvps[rsvp].num_guests,
                            guest |-> guest,
                            guest2 |-> IF guest = 0 /\ guest_number = 1
                                       THEN GuestBySlot(guests, rsvp, 2) ELSE 0]]
        /\ UNCHANGED <<rsvps, guests, prefs, cookie, session, resp>>

\* remove_guest_by_number() lines 479-490.  The DELETE of the loaded guest is
\* flushed before the query of line 484 and holds the store's write lock up to
\* the commit, so that query reads what is committed then; a DELETE of a row
\* that is gone matches nothing, an UPDATE of one raises StaleDataError.
RemoveGuestFinish(c) ==
    LET plan == inflight[c]
        deleted == Without(guests, {plan.guest})
        renumbered ==
            IF plan.guest # 0
            THEN Renumber(deleted, plan.rsvp, plan.guest_number)
            ELSE IF plan.guest2 # 0
            THEN [deleted EXCEPT ![plan.guest2].guest_number = 1]
            ELSE deleted
        stale == \/ plan.guest = 0 /\ plan.guest2 # 0 /\ plan.guest2 \notin DOMAIN guests
                 \/ plan.num_guests # 1 /\ plan.rsvp \notin DOMAIN rsvps
    IN  /\ plan # NoPlan
        /\ plan.kind = "remove"
        /\ inflight' = [inflight EXCEPT ![c] = NoPlan]
        /\ UNCHANGED <<prefs, cookie, session>>
        /\ IF stale
           THEN /\ resp' = "error500"
                /\ UNCHANGED <<rsvps, guests>>
           ELSE /\ guests' = renumbered
                /\ rsvps' = IF plan.num_guests # 1
                            THEN [rsvps EXCEPT ![plan.rsvp].num_guests = 1]
                            ELSE rsvps
                /\ resp' = "ok"

\* add_guest() without the payment status update
add_guest_KeepsStatus(c) ==
    /\ inflight[c] = NoPlan
    /\ UNCHANGED <<guests, prefs, cookie, session, inflight>>
    /\ LET rsvp == get_rsvp_from_cookie(c)
       IN  IF rsvp = 0 \/ rsvps[rsvp].num_guests >= 2
           THEN /\ resp' = "ok"
                /\ UNCHANGED rsvps
           ELSE /\ resp' = "ok"
                /\ rsvps' = [rsvps EXCEPT ![rsvp].num_guests = 2]

add_guest(c) ==
    /\ inflight[c] = NoPlan
    /\ UNCHANGED <<guests, prefs, cookie, session, inflight>>
    /\ LET rsvp == get_rsvp_from_cookie(c)
       IN  IF rsvp = 0
           THEN /\ resp' = "ok"
                /\ UNCHANGED rsvps
           ELSE IF rsvps[rsvp].num_guests >= 2
           THEN /\ resp' = "ok"
                /\ UNCHANGED rsvps
           ELSE /\ resp' = "ok"
                /\ rsvps' = [rsvps EXCEPT
                       ![rsvp].num_guests = 2,
                       ![rsvp].payment_status =
                           IF @ # "not paid" THEN "guests changed - not paid" ELSE @]

----------------------------------------------------------------------------
(* /seating-preferences *)

DigitChars == <<"0","1","2","3","4","5","6","7","8","9">>

\* str(n) of a natural number
RECURSIVE DecimalStr(_)
DecimalStr(n) ==
    IF n < 10 THEN <<DigitChars[n + 1]>>
    ELSE DecimalStr(n \div 10) \o <<DigitChars[(n % 10) + 1]>>

\* int(s) of a string of decimal digits
RECURSIVE DecimalInt(_)
DecimalInt(s) ==
    IF s = <<>> THEN 0
    ELSE 10 * DecimalInt(SubSeq(s, 1, Len(s) - 1))
         + (CHOOSE d \in 0..9 : DigitChars[d + 1] = s[Len(s)])

\* SeatingPreference.set_ranked_list(ids): the ids as a comma-delimited string
RECURSIVE set_ranked_list(_)
set_ranked_list(ids) ==
    IF ids = <<>> THEN <<>>
    ELSE IF Len(ids) = 1 THEN DecimalStr(ids[1])
    ELSE DecimalStr(ids[1]) \o <<",">> \o set_ranked_list(Tail(ids))

\* SeatingPreference.get_ranked_list(): the stored string split at the commas
RECURSIVE RankedFrom(_, _, _)
RankedFrom(s, i, cur) ==
    IF i > Len(s)
    THEN IF cur = <<>> THEN <<>> ELSE <<DecimalInt(cur)>>
    ELSE IF s[i] = ","
         THEN (IF cur = <<>> THEN <<>> ELSE <<DecimalInt(cur)>>) \o RankedFrom(s, i + 1, <<>>)
         ELSE RankedFrom(s, i + 1, Append(cur, s[i]))

get_ranked_list(s) == RankedFrom(s, 1, <<>>)

\* lines 545-552: the rank_i fields that hold an integer, for i below n, in order
RECURSIVE RankedFormIds(_, _, _)
RankedFormIds(ranks, i, n) ==
    IF i >= n \/ i >= Len(ranks) THEN <<>>
    ELSE (IF ranks[i + 1].kind = "int" THEN <<ranks[i + 1].val>> ELSE <<>>)
         \o RankedFormIds(ranks, i + 1, n)

\* seating_preferences() with a save that appends to the stored list
seating_preferences_Appends(c, method, ranks) ==
    /\ inflight[c] = NoPlan
    /\ UNCHANGED <<rsvps, guests, cookie, session, inflight>>
    /\ LET rsvp == get_rsvp_from_cookie(c)
           other_rsvps == DOMAIN rsvps \ {rsvp}
           ranked_ids == IF rsvp \in DOMAIN prefs
                         THEN get_ranked_list(prefs[rsvp]) ELSE <<>>
       IN  IF rsvp = 0 \/ other_rsvps = {}
           THEN /\ resp' = "ok"
                /\ UNCHANGED prefs
           ELSE IF method = "POST"
           THEN /\ prefs' = With(prefs, rsvp,
                                 set_ranked_list(
                                     ranked_ids \o
                                     RankedFormIds(ranks, 0, Cardinality(other_rsvps))))
                /\ resp' = "ok"
           ELSE /\ resp' = "ok"
                /\ UNCHANGED prefs

seating_preferences(c, method, ranks) ==
    /\ inflight[c] = NoPlan
    /\ UNCHANGED <<rsvps, guests, cookie, session, inflight>>
    /\ LET rsvp == get_rsvp_from_cookie(c)
           other_rsvps == DOMAIN rsvps \ {rsvp}
       IN  IF rsvp = 0 \/ other_rsvps = {}
           THEN /\ resp' = "ok"
                /\ UNCHANGED prefs
           ELSE IF method = "POST"
           THEN /\ prefs' = With(prefs, rsvp,
                                 set_ranked_list(
                                     RankedFormIds(ranks, 0, Cardinality(other_rsvps))))
                /\ resp' = "ok"
           ELSE /\ resp' = "ok"
                /\ UNCHANGED prefs

----------------------------------------------------------------------------
(* Requests *)

Methods == {"GET", "POST"}

NoGuestForm ==
    [g1_first_name |-> "", g1_last_name |-> "", g2_first_name |-> "", g2_last_name |-> ""]

\* guest forms: guest 1 is Jane Smith; guest 2 is John Smith, or partly or wholly blank
GuestForms ==
    [g1_first_name : {"Jane"}, g1_last_name : {"Smith"},
     g2_first_name : {"John", ""}, g2_last_name : {"Smith", ""}]

Init ==
    /\ rsvps = <<>>
    /\ guests = <<>>
    /\ prefs = <<>>
    /\ cookie = [c \in Callers |-> 0]
    /\ session = [c \in Callers |-> EmptySession]
    /\ resp = "ok"
    /\ inflight = [c \in Callers |-> NoPlan]

----------------------------------------------------------------------------
(* The guest roster: one browser creates, modifies, merges and deletes        *)
(* reservations and enters, adds and removes their guests.  One name; each    *)
(* email draws its own digits, so that the codes of two reservations differ.  *)
(* Payments and seating preferences are left out: no roster handler reads     *)
(* them.                                                                      *)

RosterCallers == {"u1"}

\* the submissions of the roster: an email and the digits its reservation code draws
RosterEmails == {<<EmailA, <<"0","0","0","7">> >>, <<EmailB, <<"4","2","4","2">> >>}

RosterRsvp ==
    \E c \in RosterCallers, action \in {"new", "modify", "delete"},
       e \in RosterEmails, n \in {1, 2} :
        Rsvp(c, action, "POST", NameJS, e[1], n, e[2])

RosterConfirmUpdate ==
    \E c \in RosterCallers, choice \in {"update", "cancel"} :
        ConfirmUpdate(c, "POST", choice)

RosterRemoveGuest ==
    \E c \in RosterCallers,
       guest_id \in {FormEmpty} \cup {FormInt(i) : i \in 1..MaxGuestId} :
        remove_guest(c, "POST", guest_id)

RosterGuestInfo ==
    \E c \in RosterCallers, action \in {"none", "edit"}, form \in GuestForms :
        guest_info(c, FormEmpty, "POST", <<>>, action, form)

RosterRemoveGuestByNumber ==
    \E c \in RosterCallers, guest_number \in 1..3 :
        remove_guest_by_number(c, guest_number)

RosterRemoveGuest2 == \E c \in RosterCallers : remove_guest_2(c)

RosterAddGuest == \E c \in RosterCallers : add_guest(c)

NextRoster ==
    \/ RosterRsvp
    \/ RosterConfirmUpdate
    \/ RosterRemoveGuest
    \/ RosterGuestInfo
    \/ RosterRemoveGuestByNumber
    \/ RosterRemoveGuest2
    \/ RosterAddGuest

SpecRoster == Init /\ [][NextRoster]_vars

\* the guests of reservation r, as a set of guest ids
GuestsOf(g, r) == {k \in DOMAIN g : g[k].rsvp_id = r}

(* C1: no reservation has a guest record at slot 2 while it has none at slot 1, *)
(* in every state any sequence of roster operations reaches.                   *)
C1_NoSlot2WithoutSlot1 ==
    \A k \in DOMAIN guests :
        guests[k].guest_number = 2 =>
            \E j \in DOMAIN guests :
                guests[j].rsvp_id = guests[k].rsvp_id /\ guests[j].guest_number = 1

\* guest 2 (John; guest 1 is always entered as Jane) has been renumbered to slot 1
\* of a party of two, whose slot 2 is now empty
C1_Witness ==
    \E r \in DOMAIN rsvps :
        /\ rsvps[r].num_guests = 2
        /\ GuestBySlot(guests, r, 1) # 0
        /\ guests[GuestBySlot(guests, r, 1)].first_name = "John"
        /\ GuestBySlot(guests, r, 2) = 0

(* C2: a reservation has a slot-2 guest record only if its party size is 2. *)
C2_Slot2OnlyInPartyOfTwo ==
    \A k \in DOMAIN guests :
        guests[k].guest_number = 2 => rsvps[guests[k].rsvp_id].num_guests = 2

(* C8: on a reservation with guests at slots 1 and 2, remove-guest-by-slot     *)
(* leaves exactly one guest record, at slot 1 -- the former slot-2 guest when  *)
(* slot 1 was removed, the slot-1 guest when slot 2 was -- and party size 1.   *)
C8_RemoveBySlot ==
    [][\A c \in Callers, n \in {1, 2} :
        LET r == get_rsvp_from_cookie(c)
            g1 == GuestBySlot(guests, r, 1)
            g2 == GuestBySlot(guests, r, 2)
            kept == IF n = 1 THEN g2 ELSE g1
        IN  (/\ r # 0
             /\ g1 # 0
             /\ g2 # 0
             /\ GuestsOf(guests, r) = {g1, g2}
             /\ remove_guest_by_number(c, n))
            => /\ GuestsOf(guests', r) = {kept}
               /\ guests'[kept] = [guests[kept] EXCEPT !.guest_number = 1]
               /\ rsvps'[r].num_guests = 1]_vars

\* John, entered as guest 2, is the only guest, at slot 1, of a party of one
C8_Witness ==
    \E r \in DOMAIN rsvps :
        /\ rsvps[r].num_guests = 1
        /\ \E k \in DOMAIN guests :
              /\ GuestsOf(guests, r) = {k}
              /\ guests[k].guest_number = 1
              /\ guests[k].first_name = "John"

(* C17: a valid guest-info submission always creates or overwrites slot 1;    *)
(* it creates or overwrites slot 2 when the party size is 2 and guest 2 has a *)
(* first and a last name, and otherwise creates no slot-2 record and leaves   *)
(* an existing one unchanged.                                                 *)
C17_UpsertGuest2 ==
    [][\A c \in RosterCallers, action \in {"none", "edit"}, form \in GuestForms :
        LET r == GuestInfoRsvp(c, FormEmpty)
            s1 == GuestBySlot(guests, r, 1)
            s2 == GuestBySlot(guests, r, 2)
            t1 == GuestBySlot(guests', r, 1)
            t2 == GuestBySlot(guests', r, 2)
        IN  (/\ r # 0
             /\ (s1 = 0 \/ action = "edit")
             /\ form.g1_first_name # "" /\ form.g1_last_name # ""
             /\ guest_info(c, FormEmpty, "POST", <<>>, action, form))
            => /\ t1 # 0
               /\ s1 # 0 => t1 = s1
               /\ guests'[t1].first_name = form.g1_first_name
               /\ guests'[t1].last_name = form.g1_last_name
               /\ IF /\ rsvps[r].num_guests = 2
                     /\ form.g2_first_name # ""
                     /\ form.g2_last_name # ""
                  THEN /\ t2 # 0
                       /\ s2 # 0 => t2 = s2
                       /\ guests'[t2].first_name = form.g2_first_name
                       /\ guests'[t2].last_name = form.g2_last_name
                  ELSE IF s2 = 0
                       THEN t2 = 0
                       ELSE t2 = s2 /\ guests'[s2] = guests[s2]]_vars

\* both guests of a party of two are entered
C17_Witness ==
    \E r \in DOMAIN rsvps :
        /\ rsvps[r].num_guests = 2
        /\ GuestBySlot(guests, r, 1) # 0
        /\ guests[GuestBySlot(guests, r, 1)].first_name = "Jane"
        /\ GuestBySlot(guests, r, 2) # 0
        /\ guests[GuestBySlot(guests, r, 2)].first_name = "John"

----------------------------------------------------------------------------
(* Emails: one browser submits the RSVP form with every action value, name,   *)
(* email and party size, and decides merges, one request at a time.  No       *)
(* guests, payments or preferences.                                           *)

Digits0007 == <<"0","0","0","7">>

EmailCallers == {"u1"}

EmailRsvp ==
    \E c \in EmailCallers, action \in RsvpActions, name \in Names,
       email \in EmailInputs, n \in {1, 2} :
        Rsvp(c, action, "POST", name, email, n, Digits0007)

EmailConfirmUpdate ==
    \E c \in EmailCallers, choice \in {"update", "cancel"} : ConfirmUpdate(c, "POST", choice)

NextEmail ==
    \/ EmailRsvp
    \/ EmailConfirmUpdate

SpecEmail == Init /\ [][NextEmail]_vars

(* C4: every valid submission with an action parameter other than delete that *)
(* is not a modify of the caller's own reservation and whose lower-cased email *)
(* belongs to a reservation creates no row and stores pending_rsvp for the     *)
(* merge decision, whatever the action and the cookie.                         *)
C4_DuplicateEmailRoutesToMerge ==
    [][\A c \in Callers, action \in RsvpActions \ {"none", "delete"}, name \in Names,
          email \in EmailInputs, n \in {1, 2} :
        (/\ RSVPFormValid("POST", name, email, n)
         /\ ~(action = "modify" /\ get_rsvp_from_cookie(c) # 0)
         /\ RsvpByEmail(rsvps, Lower(email)) # 0
         /\ Rsvp(c, action, "POST", name, email, n, Digits0007))
        => /\ DOMAIN rsvps' = DOMAIN rsvps
           /\ session'[c].pending_rsvp =
                 <<[name |-> name, email |-> Lower(email), num_guests |-> n]>>]_vars

(* C5: a modify whose email belongs to a different reservation changes no      *)
(* reservation and is answered with a user-correctable page, not a failure.    *)
C5_ModifyCollisionRejected ==
    [][\A c \in Callers, name \in Names, email \in EmailInputs, n \in {1, 2} :
        LET own == get_rsvp_from_cookie(c)
            other == RsvpByEmail(rsvps, Lower(email))
        IN  (/\ RSVPFormValid("POST", name, email, n)
             /\ own # 0
             /\ other # 0
             /\ other # own
             /\ Rsvp(c, "modify", "POST", name, email, n, Digits0007))
            => /\ rsvps' = rsvps
               /\ resp' = "ok"]_vars

(* C18: cancel in confirm_update removes pending_rsvp from the session and    *)
(* changes no reservation, guest or preference record; so does any            *)
(* confirm_update request when no reservation holds the pending email.        *)
C18_CancelDiscardsPending ==
    [][\A c \in Callers, method \in Methods, choice \in {"update", "cancel"} :
        (/\ session[c].pending_rsvp # <<>>
         /\ \/ method = "POST" /\ choice = "cancel"
            \/ RsvpByEmail(rsvps, session[c].pending_rsvp[1].email) = 0
         /\ ConfirmUpdate(c, method, choice))
        => /\ session'[c].pending_rsvp = <<>>
           /\ UNCHANGED <<rsvps, guests, prefs>>]_vars

\* a merge decision is pending for an email that no reservation holds any more
C18_Witness ==
    \E c \in Callers :
        /\ session[c].pending_rsvp # <<>>
        /\ RsvpByEmail(rsvps, session[c].pending_rsvp[1].email) = 0

----------------------------------------------------------------------------
(* Racing requests: each RSVP submission reads the store in one step and      *)
(* commits in a later one, so that the two browsers' creates and modifies     *)
(* interleave in every order; merges are decided in between.  The emails are  *)
(* typed in upper case; one name and a party of one.                          *)

RaceRsvpBegin ==
    \E c \in Callers, action \in {"new", "modify"}, email \in {EmailA2, EmailB},
       digits \in DigitDraws :
        RsvpBegin(c, action, "POST", NameJS, email, 1, digits)

RaceRsvpFinish == \E c \in Callers : RsvpFinish(c)

RaceConfirmUpdate ==
    \E c \in Callers, choice \in {"update", "cancel"} : ConfirmUpdate(c, "POST", choice)

NextRace ==
    \/ RaceRsvpBegin
    \/ RaceRsvpFinish
    \/ RaceConfirmUpdate

SpecRace == Init /\ [][NextRace]_vars

(* C3: no two reservation rows hold the same email, under any sequence and any *)
(* interleaving of create, modify and merge-update requests.                   *)
C3_EmailsUnique ==
    \A i, j \in DOMAIN rsvps : i # j => rsvps[i].email # rsvps[j].email

\* two reservations are stored and the last request, which would have given one
\* of them the other's email, was refused by the store
C3_Witness ==
    /\ Cardinality(DOMAIN rsvps) = 2
    /\ resp = "error500"

----------------------------------------------------------------------------
(* Identity: two browsers create and delete reservations, look them up, open  *)
(* the guest page with and without an rsvp_id in the URL, enter guest 1 and   *)
(* mark payments.  One name and parties of one.                               *)

RsvpIdInputs == {FormEmpty, FormJunk} \cup {FormInt(i) : i \in 1..MaxRsvps}

\* what a caller may type into the lookup form: an email in upper case, a code in
\* lower case, blanks, and a code no reservation has
LookupInputs ==
    {EmailA2, <<" ">>, <<"z","z","9","9","9","9">>}
    \cup {Lower(generate_reservation_id(NameJS, d)) : d \in DigitDraws}

JaneForm ==
    [g1_first_name |-> "Jane", g1_last_name |-> "Smith",
     g2_first_name |-> "", g2_last_name |-> ""]

IdentityRsvp ==
    \E c \in Callers, action \in {"none", "delete"}, email \in {EmailA, EmailB},
       digits \in DigitDraws :
        Rsvp(c, action, "POST", NameJS, email, 1, digits)

IdentityLookup ==
    \E c \in Callers, lookup_value \in LookupInputs :
        guest_info(c, FormEmpty, "POST", lookup_value, "none", NoGuestForm)

IdentityGuestInfo ==
    \E c \in Callers, rsvp_id_param \in RsvpIdInputs, action \in {"none", "edit"} :
        guest_info(c, rsvp_id_param, "POST", <<>>, action, JaneForm)

IdentityMarkPayment == \E c \in Callers : mark_payment(c, "cash")

NextIdentity ==
    \/ IdentityRsvp
    \/ IdentityLookup
    \/ IdentityGuestInfo
    \/ IdentityMarkPayment

SpecIdentity == Init /\ [][NextIdentity]_vars

(* C6: whenever the request's token cookie matches a reservation, the         *)
(* reservation whose guests guest_info shows or writes is that reservation,   *)
(* whatever rsvp_id the request carries.                                      *)
C6_CookieResolvesFirst ==
    \A c \in Callers, rsvp_id_param \in RsvpIdInputs :
        (get_rsvp_from_cookie(c) # 0 /\ GuestInfoRsvp(c, rsvp_id_param) # 0) =>
            GuestInfoRsvp(c, rsvp_id_param) = get_rsvp_from_cookie(c)

(* C7: for a caller without a valid token cookie and without a reservation id *)
(* in the session (which only a successful lookup may put there), no request  *)
(* resolves a reservation or puts an id into the session.                     *)
C7_NoResolutionWithoutTokenOrLookup ==
    \A c \in Callers, rsvp_id_param \in RsvpIdInputs :
        (get_rsvp_from_cookie(c) = 0 /\ session[c].guest_info_rsvp_id = 0) =>
            /\ GuestInfoRsvp(c, rsvp_id_param) = 0
            /\ GuestInfoSessionId(c, rsvp_id_param) = 0

\* The explicit lookup on its own: browsers create and delete reservations and
\* look reservations up by code and by email.
NextLookup ==
    \/ IdentityRsvp
    \/ IdentityLookup

SpecLookup == Init /\ [][NextLookup]_vars

(* C16: a lookup value that is, upper-cased, a reservation's code or,         *)
(* lower-cased, a reservation's email stores that reservation's id in the     *)
(* session and binds the cookie to its token; a value matching no reservation *)
(* sets neither and changes no record.                                        *)
C16_ExplicitLookup ==
    [][\A c \in Callers, lookup_value \in LookupInputs :
        LET matches == {r \in DOMAIN rsvps :
                           \/ rsvps[r].reservation_id = Upper(lookup_value)
                           \/ rsvps[r].email = Lower(lookup_value)}
        IN  (/\ GuestInfoRsvp(c, FormEmpty) = 0
             /\ guest_info(c, FormEmpty, "POST", lookup_value, "none", NoGuestForm))
            => IF matches # {}
               THEN \E r \in matches :
                       /\ matches = {r}
                       /\ session'[c].guest_info_rsvp_id = r
                       /\ rsvps'[r].rsvp_token # 0
                       /\ cookie'[c] = rsvps'[r].rsvp_token
                       /\ get_rsvp_from_cookie(c)' = r
               ELSE /\ session'[c].guest_info_rsvp_id = 0
                    /\ cookie'[c] = cookie[c]
                    /\ UNCHANGED <<rsvps, guests, prefs>>]_vars

\* both browsers hold the cookie of one reservation, which one of them has
\* looked up
C16_Witness ==
    /\ cookie["u1"] # 0
    /\ cookie["u1"] = cookie["u2"]
    /\ get_rsvp_from_cookie("u1") # 0
    /\ \E c \in Callers : session[c].guest_info_rsvp_id = get_rsvp_from_cookie("u1")

----------------------------------------------------------------------------
(* Payments: two browsers each hold a reservation of their own, add and       *)
(* remove its second guest and report payments; either may log in as the      *)
(* administrator and set payment statuses.                                    *)

\* the email each browser's owner uses
OwnEmail == [c \in Callers |-> IF c = "u1" THEN EmailA ELSE EmailB]

\* the digits each browser's reservation code draws
OwnDigits == [c \in Callers |-> IF c = "u1" THEN <<"0","0","0","7">> ELSE <<"4","2","4","2">>]

PaymentRsvp ==
    \E c \in Callers, n \in {1, 2} :
        Rsvp(c, "none", "POST", NameJS, OwnEmail[c], n, OwnDigits[c])

PaymentAddGuest == \E c \in Callers : add_guest(c)

PaymentRemoveGuest2 == \E c \in Callers : remove_guest_2(c)

PaymentMarkPayment ==
    \E c \in Callers, payment_method \in {"cash", "Venmo", "check"} :
        mark_payment(c, payment_method)

PaymentAdminLogin ==
    \E c \in Callers, method \in Methods, password_ok \in BOOLEAN :
        admin_login(c, method, password_ok)

PaymentTracking ==
    \E c \in Callers, method \in Methods, rsvp_id \in RsvpIdInputs,
       new_status \in PaymentStatuses \cup {"paid"} :
        payment_tracking(c, method, rsvp_id, new_status)

NextPayment ==
    \/ PaymentRsvp
    \/ PaymentAddGuest
    \/ PaymentRemoveGuest2
    \/ PaymentMarkPayment
    \/ PaymentAdminLogin
    \/ PaymentTracking

SpecPayment == Init /\ [][NextPayment]_vars

(* C9: add_guest on a party of one sets party size 2 and turns every payment  *)
(* status but 'not paid' into 'guests changed - not paid'; on a party of two  *)
(* it changes neither party size nor payment status.                          *)
C9_AddGuest ==
    [][\A c \in Callers :
        LET r == get_rsvp_from_cookie(c)
        IN  (r # 0 /\ add_guest(c)) =>
                IF rsvps[r].num_guests = 1
                THEN rsvps' = [rsvps EXCEPT
                         ![r].num_guests = 2,
                         ![r].payment_status =
                             IF rsvps[r].payment_status = "not paid"
                             THEN "not paid"
                             ELSE "guests changed - not paid"]
                ELSE rsvps' = rsvps]_vars

\* a party of two flagged 'guests changed - not paid' while no browser has logged in
\* as the administrator: only add_guest can have set the status
C9_Witness ==
    /\ \A c \in Callers : ~session[c].admin_authenticated
    /\ \E r \in DOMAIN rsvps :
          /\ rsvps[r].num_guests = 2
          /\ rsvps[r].payment_status = "guests changed - not paid"

(* Payment confirmation: one browser creates, modifies and merges its         *)
(* reservation, enters, adds and removes guests and reports payments; the     *)
(* other may log in as the administrator; both send payment_tracking.         *)

StatusGuest == "u1"

StatusRsvp ==
    \E action \in {"none", "new", "modify"}, n \in {1, 2} :
        Rsvp(StatusGuest, action, "POST", NameJS, EmailA, n, Digits0007)

StatusConfirmUpdate ==
    \E choice \in {"update", "cancel"} : ConfirmUpdate(StatusGuest, "POST", choice)

StatusGuestInfo == guest_info(StatusGuest, FormEmpty, "POST", <<>>, "edit", JaneForm)

StatusAddGuest == add_guest(StatusGuest)

StatusRemoveGuest2 == remove_guest_2(StatusGuest)

StatusMarkPayment ==
    \E payment_method \in {"cash", "Venmo", "check"} :
        mark_payment(StatusGuest, payment_method)

StatusAdminLogin ==
    \E c \in Callers \ {StatusGuest}, password_ok \in BOOLEAN :
        admin_login(c, "POST", password_ok)

StatusTracking ==
    \E c \in Callers, method \in Methods, rsvp_id \in RsvpIdInputs,
       new_status \in PaymentStatuses \cup {"paid"} :
        payment_tracking(c, method, rsvp_id, new_status)

NextStatus ==
    \/ StatusRsvp
    \/ StatusConfirmUpdate
    \/ StatusGuestInfo
    \/ StatusAddGuest
    \/ StatusRemoveGuest2
    \/ StatusMarkPayment
    \/ StatusAdminLogin
    \/ StatusTracking

SpecStatus == Init /\ [][NextStatus]_vars

ConfirmedStatuses == {"cash", "Venmo"}

(* C14: a reservation's payment status becomes 'cash' or 'Venmo' only in a    *)
(* payment_tracking POST of a session with admin_authenticated set, and a     *)
(* payment_tracking request of a session without it changes no record.        *)
C14_ConfirmedOnlyByAdministrator ==
    [][/\ \A r \in DOMAIN rsvps' :
             (/\ rsvps'[r].payment_status \in ConfirmedStatuses
              /\ (r \in DOMAIN rsvps => rsvps[r].payment_status # rsvps'[r].payment_status))
             => \E c \in Callers, rsvp_id \in RsvpIdInputs, new_status \in PaymentStatuses :
                    /\ session[c].admin_authenticated
                    /\ payment_tracking(c, "POST", rsvp_id, new_status)
       /\ \A c \in Callers, method \in Methods, rsvp_id \in RsvpIdInputs,
             new_status \in PaymentStatuses :
             (~session[c].admin_authenticated
              /\ payment_tracking(c, method, rsvp_id, new_status))
             => UNCHANGED <<rsvps, guests, prefs>>]_vars

\* a reservation is confirmed as paid in cash and its party was modified to two
C14_Witness ==
    \E r \in DOMAIN rsvps :
        /\ rsvps[r].payment_status = "cash"
        /\ rsvps[r].num_guests = 2
        /\ \E c \in Callers : session[c].admin_authenticated

----------------------------------------------------------------------------
(* Deletion: two browsers each create a reservation for two under their own   *)
(* email, enter its guests, rank the other reservation and delete their own.  *)

RankInputs == {FormEmpty} \cup {FormInt(i) : i \in 1..MaxRsvps}

DeletionRsvp ==
    \E c \in Callers, action \in {"none", "delete"} :
        Rsvp(c, action, "POST", NameJS, OwnEmail[c], 2, OwnDigits[c])

DeletionGuestInfo ==
    \E c \in Callers, action \in {"none", "edit"}, form \in GuestForms :
        guest_info(c, FormEmpty, "POST", <<>>, action, form)

DeletionSeatingPreferences ==
    \E c \in Callers, ranks \in [1..(MaxRsvps - 1) -> RankInputs] :
        seating_preferences(c, "POST", ranks)

NextDeletion ==
    \/ DeletionRsvp
    \/ DeletionGuestInfo
    \/ DeletionSeatingPreferences

SpecDeletion == Init /\ [][NextDeletion]_vars

(* C10: delete removes the cookie's reservation, every guest record it owns   *)
(* and its seating preference record; no guest or preference record is left   *)
(* with the deleted id as owner, and the rows of other owners are unchanged.   *)
C10_DeleteCascades ==
    [][\A c \in Callers :
        LET r == get_rsvp_from_cookie(c)
        IN  (r # 0 /\ Rsvp(c, "delete", "POST", NameJS, EmailA, 2, Digits0007)) =>
                /\ rsvps' = Without(rsvps, {r})
                /\ \A k \in DOMAIN guests' : guests'[k].rsvp_id # r
                /\ r \notin DOMAIN prefs'
                /\ DOMAIN guests' \subseteq DOMAIN guests
                /\ DOMAIN prefs' \subseteq DOMAIN prefs
                /\ \A k \in DOMAIN guests :
                      guests[k].rsvp_id # r => k \in DOMAIN guests' /\ guests'[k] = guests[k]
                /\ \A o \in DOMAIN prefs :
                      o # r => o \in DOMAIN prefs' /\ prefs'[o] = prefs[o]]_vars

\* reservation 1 is gone and reservation 2 is kept with a guest and its ranking,
\* while the guest with id 1 went with a deleted reservation
C10_Witness ==
    /\ DOMAIN rsvps = {2}
    /\ DOMAIN prefs = {2}
    /\ 1 \notin DOMAIN guests
    /\ \E k \in DOMAIN guests : guests[k].rsvp_id = 2

----------------------------------------------------------------------------
(* Seating: MaxSeated reservations are stored, the two browsers hold the      *)
(* cookies of the first two; they save and read rankings over all the others  *)
(* and delete their own reservation.                                           *)

MaxSeated == 3

SeatedEmail(i) == <<LowerLetters[i]>> \o WestPoint

SeatedRsvp(i) ==
    [NewRsvp(NameJS, SeatedEmail(i), 1,
             generate_reservation_id(NameJS, <<"0", "0", "0", DigitChars[i + 1]>>))
        EXCEPT !.rsvp_token = i]

InitSeating ==
    /\ rsvps = [i \in 1..MaxSeated |-> SeatedRsvp(i)]
    /\ guests = <<>>
    /\ prefs = <<>>
    /\ cookie = [c \in Callers |-> IF c = "u1" THEN 1 ELSE 2]
    /\ session = [c \in Callers |-> EmptySession]
    /\ resp = "ok"
    /\ inflight = [c \in Callers |-> NoPlan]

SeatingRankInputs == {FormEmpty, FormJunk} \cup {FormInt(i) : i \in 1..MaxSeated}

SeatingForms == [1..(MaxSeated - 1) -> SeatingRankInputs]

SeatingSave ==
    \E c \in Callers, ranks \in SeatingForms : seating_preferences(c, "POST", ranks)

SeatingRead ==
    \E c \in Callers, ranks \in SeatingForms : seating_preferences(c, "GET", ranks)

SeatingDelete ==
    \E c \in Callers : Rsvp(c, "delete", "POST", NameJS, EmailA, 1, Digits0007)

NextSeating ==
    \/ SeatingSave
    \/ SeatingRead
    \/ SeatingDelete

SpecSeating == InitSeating /\ [][NextSeating]_vars

\* the ids of a stored ranking, in order
RankedOf(o) == get_ranked_list(prefs[o])

\* the integers a submitted form carries, in field order
FormIds(ranks) ==
    LET ints == SelectSeq(ranks, LAMBDA x : x.kind = "int")
    IN  [i \in 1..Len(ints) |-> ints[i].val]

(* C11: a stored ranking changes only by a save of its owner or the deletion  *)
(* of its owner; in particular the deletion of a ranked reservation leaves    *)
(* the ranking unchanged, with the deleted id still in it.                    *)
C11_StaleIdsKept ==
    [][\A a \in DOMAIN prefs :
        (/\ a \in DOMAIN rsvps'
         /\ ~ \E c \in Callers, ranks \in SeatingForms :
                 get_rsvp_from_cookie(c) = a /\ seating_preferences(c, "POST", ranks))
        => a \in DOMAIN prefs' /\ prefs'[a] = prefs[a]]_vars

\* reservation 1 still ranks reservation 2, which has been deleted
C11_Witness ==
    /\ 1 \in DOMAIN prefs
    /\ 2 \notin DOMAIN rsvps
    /\ \E i \in DOMAIN RankedOf(1) : RankedOf(1)[i] = 2

(* C12: every stored ranking holds each id at most once and never holds the   *)
(* id of its owner.                                                            *)
C12_RankingWellFormed ==
    \A o \in DOMAIN prefs :
        /\ \A i, j \in DOMAIN RankedOf(o) : RankedOf(o)[i] = RankedOf(o)[j] => i = j
        /\ \A i \in DOMAIN RankedOf(o) : RankedOf(o)[i] # o

(* C13: after every save of a form with one field per other reservation, the *)
(* owner's ranking reads back as exactly the submitted ids, in order,         *)
(* whatever was stored before.                                                *)
C13_SaveReadRoundTrip ==
    [][\A c \in Callers, ranks \in SeatingForms :
        LET r == get_rsvp_from_cookie(c)
            n == Cardinality(DOMAIN rsvps \ {r})
        IN  (/\ r # 0
             /\ n > 0
             /\ \A i \in DOMAIN ranks : i > n => ranks[i] = FormEmpty
             /\ seating_preferences(c, "POST", ranks))
            => /\ r \in DOMAIN prefs'
               /\ get_ranked_list(prefs'[r]) = FormIds(ranks)]_vars

\* reservation 1 has a ranking of two ids in descending order and reservation 2
\* has saved an empty one
C13_Witness ==
    /\ 1 \in DOMAIN prefs /\ 2 \in DOMAIN prefs
    /\ RankedOf(1) = <<3, 2>>
    /\ RankedOf(2) = <<>>

----------------------------------------------------------------------------
(* Tokens: the store holds a reservation from before the rsvp_token column    *)
(* was added (app.py 20-26), so its token is absent; browsers look it up,     *)
(* modify it, merge into it, remove its guests, delete it and create it anew. *)
(* A lookup runs either without another request in between or as two steps,   *)
(* its query and its ensure_rsvp_token() commit.                              *)

LegacyRsvp == NewRsvp(NameAL, EmailA, 2, generate_reservation_id(NameAL, <<"0","0","0","7">>))

InitToken ==
    /\ rsvps = <<LegacyRsvp>>
    /\ guests = <<>>
    /\ prefs = <<>>
    /\ cookie = [c \in Callers |-> 0]
    /\ session = [c \in Callers |-> EmptySession]
    /\ resp = "ok"
    /\ inflight = [c \in Callers |-> NoPlan]

TokenLookup ==
    \E c \in Callers, lookup_value \in {EmailA2, <<"z","z","9","9","9","9">>} :
        guest_info(c, FormEmpty, "POST", lookup_value, "none", NoGuestForm)

TokenLookupBegin == \E c \in Callers : GuestInfoLookupBegin(c, EmailA2)

TokenLookupFinish == \E c \in Callers : GuestInfoLookupFinish(c)

JaneAndJohnForm ==
    [g1_first_name |-> "Jane", g1_last_name |-> "Smith",
     g2_first_name |-> "John", g2_last_name |-> "Smith"]

TokenGuestInfo ==
    \E c \in Callers : guest_info(c, FormEmpty, "POST", <<>>, "edit", JaneAndJohnForm)

TokenRsvp ==
    \E c \in Callers, action \in {"new", "modify", "delete"} :
        Rsvp(c, action, "POST", NameJS, EmailA, 1, <<"4","2","4","2">>)

TokenConfirmUpdate ==
    \E c \in Callers, choice \in {"update", "cancel"} : ConfirmUpdate(c, "POST", choice)

TokenRemoveGuest ==
    \E c \in Callers, guest_id \in {FormInt(i) : i \in 1..MaxGuestId} :
        remove_guest(c, "POST", guest_id)

NextToken ==
    \/ TokenLookup
    \/ TokenLookupBegin
    \/ TokenLookupFinish
    \/ TokenGuestInfo
    \/ TokenRsvp
    \/ TokenConfirmUpdate
    \/ TokenRemoveGuest

SpecToken == InitToken /\ [][NextToken]_vars

(* C15: a token that is set keeps its value in every step while its           *)
(* reservation is stored, and an absent token is set only in a step that      *)
(* binds a browser's cookie to it.                                            *)
C15_TokenStable ==
    [][\A r \in DOMAIN rsvps \cap DOMAIN rsvps' :
        /\ rsvps[r].rsvp_token # 0 => rsvps'[r].rsvp_token = rsvps[r].rsvp_token
        /\ (rsvps[r].rsvp_token = 0 /\ rsvps'[r].rsvp_token # 0) =>
              \E c \in Callers : cookie'[c] = rsvps'[r].rsvp_token]_vars

----------------------------------------------------------------------------
(* Party size: one browser submits the RSVP form with party sizes from 0 to   *)
(* MaxPartyInput, merges, enters guests, reports a payment, adds and removes  *)
(* guests.                                                                    *)

MaxPartyInput == 3

PartyGuest == "u1"

PartyRsvp ==
    \E action \in {"new", "modify"}, n \in 0..MaxPartyInput :
        Rsvp(PartyGuest, action, "POST", NameJS, EmailA, n, Digits0007)

PartyConfirmUpdate ==
    \E choice \in {"update", "cancel"} : ConfirmUpdate(PartyGuest, "POST", choice)

PartyGuestInfo == guest_info(PartyGuest, FormEmpty, "POST", <<>>, "edit", JaneAndJohnForm)

PartyAddGuest == add_guest(PartyGuest)

PartyRemoveGuestByNumber ==
    \E guest_number \in 1..3 : remove_guest_by_number(PartyGuest, guest_number)

PartyRemoveGuest ==
    \E guest_id \in {FormEmpty} \cup {FormInt(i) : i \in 1..MaxGuestId} :
        remove_guest(PartyGuest, "POST", guest_id)

PartyMarkPayment == mark_payment(PartyGuest, "cash")

NextParty ==
    \/ PartyRsvp
    \/ PartyConfirmUpdate
    \/ PartyGuestInfo
    \/ PartyAddGuest
    \/ PartyRemoveGuestByNumber
    \/ PartyRemoveGuest
    \/ PartyMarkPayment

SpecParty == Init /\ [][NextParty]_vars

(* C19: every reservation's party size is 1 or 2 in every state, and          *)
(* add_guest on a party of 2 changes no reservation and no guest.             *)
C19_PartySizeDomain ==
    /\ [](\A r \in DOMAIN rsvps : rsvps[r].num_guests \in {1, 2})
    /\ [][\A c \in Callers :
            LET r == get_rsvp_from_cookie(c)
            IN  (r # 0 /\ rsvps[r].num_guests = 2 /\ add_guest(c))
                => UNCHANGED <<rsvps, guests>>]_vars

\* a party grown to two by add_guest after its payment was reported, with its
\* first guest entered
C19_Witness ==
    \E r \in DOMAIN rsvps :
        /\ rsvps[r].num_guests = 2
        /\ rsvps[r].payment_status = "guests changed - not paid"
        /\ GuestBySlot(guests, r, 1) # 0

----------------------------------------------------------------------------
(* Reservation codes: one browser creates reservations under every name of up *)
(* to MaxNameLen characters over letters, a digit and the blank, and deletes  *)
(* them.                                                                      *)

MaxNameLen == 3

NameChars == {"j", "S", "1", " "}

CodeNames == UNION {[1..n -> NameChars] : n \in 1..MaxNameLen}

CodeGuest == "u1"

CodeRsvp ==
    \E action \in {"none", "delete"}, name \in CodeNames, digits \in DigitDraws :
        Rsvp(CodeGuest, action, "POST", name, EmailA, 1, digits)

NextCode == CodeRsvp

SpecCode == Init /\ [][NextCode]_vars

(* C20: every stored reservation code has six characters, two upper-case      *)
(* letters followed by four decimal digits.                                   *)
C20_CodeFormat ==
    \A r \in DOMAIN rsvps :
        LET code == rsvps[r].reservation_id
        IN  /\ Len(code) = 6
            /\ \A i \in 1..2 : \E k \in 1..26 : code[i] = UpperLetters[k]
            /\ \A i \in 3..6 : \E d \in 1..10 : code[i] = DigitChars[d]
----------------------------------------------------------------------------
(* Shared reservation: two browsers hold the token cookie of one reservation  *)
(* for two (one created it, the other looked it up).  Each guest-info         *)
(* submission and each remove-guest-by-slot request loads the roster in one   *)
(* step and commits in a later one, so that the requests of the two browsers  *)
(* interleave in every order; add_guest restores the party of two.            *)

SharedRsvp ==
    [NewRsvp(NameJS, EmailA, 2, generate_reservation_id(NameJS, Digits0007))
        EXCEPT !.rsvp_token = 1]

InitShared ==
    /\ rsvps = <<SharedRsvp>>
    /\ guests = <<>>
    /\ prefs = <<>>
    /\ cookie = [c \in Callers |-> 1]
    /\ session = [c \in Callers |->
                     IF c = "u2" THEN [EmptySession EXCEPT !.guest_info_rsvp_id = 1]
                                 ELSE EmptySession]
    /\ resp = "ok"
    /\ inflight = [c \in Callers |-> NoPlan]

\* guest 1 under either of two first names; guest 2 is John Smith or left blank
SharedForms ==
    [g1_first_name : {"Jane", "Joan"}, g1_last_name : {"Smith"},
     g2_first_name : {"John", ""}, g2_last_name : {"Smith"}]

SharedGuestInfoBegin ==
    \E c \in Callers, form \in SharedForms : GuestInfoBegin(c, "edit", form)

SharedGuestInfoFinish == \E c \in Callers : GuestInfoFinish(c)

SharedRemoveGuestBegin ==
    \E c \in Callers, guest_number \in {1, 2} : RemoveGuestBegin(c, guest_number)

SharedRemoveGuestFinish == \E c \in Callers : RemoveGuestFinish(c)

SharedAddGuest == \E c \in Callers : add_guest(c)

NextShared ==
    \/ SharedGuestInfoBegin
    \/ SharedGuestInfoFinish
    \/ SharedRemoveGuestBegin
    \/ SharedRemoveGuestFinish
    \/ SharedAddGuest

SpecShared == InitShared /\ [][NextShared]_vars

(* C21: under every interleaving of two requests on one reservation, each     *)
(* loading the roster before either commits, the committed roster has at most *)
(* one guest record per slot, slots 1 and 2 only, and so at most two records. *)
C21_SlotsUniqueUnderInterleaving ==
    \A r \in DOMAIN rsvps :
        /\ \A k \in GuestsOf(guests, r) : guests[k].guest_number \in {1, 2}
        /\ \A j, k \in GuestsOf(guests, r) :
              guests[j].guest_number = guests[k].guest_number => j = k
        /\ Cardinality(GuestsOf(guests, r)) <= 2
----------------------------------------------------------------------------
(* Merges: the store holds a reservation from before the rsvp_token column    *)
(* was added, a party of one without a token.  One browser submits new        *)
(* reservations under its email and under another, with another name and      *)
(* either party size, decides the merges, enters guests, reports a payment    *)
(* and works off the removal a shrinking merge queues.                        *)

MergeGuest == "u1"

LegacyParty1 == [LegacyRsvp EXCEPT !.num_guests = 1]

InitMerge ==
    /\ rsvps = <<LegacyParty1>>
    /\ guests = <<>>
    /\ prefs = <<>>
    /\ cookie = [c \in Callers |-> 0]
    /\ session = [c \in Callers |-> EmptySession]
    /\ resp = "ok"
    /\ inflight = [c \in Callers |-> NoPlan]

MergeRsvp ==
    \E email \in {EmailA2, EmailB}, n \in {1, 2} :
        Rsvp(MergeGuest, "new", "POST", NameJS, email, n, <<"4","2","4","2">>)

MergeConfirmUpdate ==
    \E method \in Methods, choice \in {"update", "cancel"} :
        ConfirmUpdate(MergeGuest, method, choice)

MergeGuestInfo == guest_info(MergeGuest, FormEmpty, "POST", <<>>, "edit", JaneAndJohnForm)

MergeMarkPayment == mark_payment(MergeGuest, "cash")

\* the guest_id field of the removal form: absent, not a number, or a guest id
RemoveGuestInputs == {FormEmpty, FormJunk} \cup {FormInt(i) : i \in 1..MaxGuestId}

MergeRemoveGuest ==
    \E guest_id \in RemoveGuestInputs : remove_guest(MergeGuest, "POST", guest_id)

NextMerge ==
    \/ MergeRsvp
    \/ MergeConfirmUpdate
    \/ MergeGuestInfo
    \/ MergeMarkPayment
    \/ MergeRemoveGuest

SpecMerge == InitMerge /\ [][NextMerge]_vars

(* C22, as stated: update in confirm_update writes only the pending name and  *)
(* party size onto the reservation holding the pending email: its email,      *)
(* code, payment status, access token and guests are unchanged, no row is     *)
(* created, pending_rsvp is cleared, and rsvp_id_for_removal is set to the    *)
(* reservation's id exactly when the new party size is below the old one.     *)
C22_MergeUpdateOriginal ==
    [][\A c \in Callers :
        LET pending == session[c].pending_rsvp[1]
            e == RsvpByEmail(rsvps, pending.email)
        IN  (/\ session[c].pending_rsvp # <<>>
             /\ e # 0
             /\ ConfirmUpdate(c, "POST", "update"))
            => /\ rsvps' = [rsvps EXCEPT ![e].name = pending.name,
                                         ![e].num_guests = pending.num_guests]
               /\ UNCHANGED <<guests, prefs>>
               /\ session'[c].pending_rsvp = <<>>
               /\ session'[c].rsvp_id_for_removal =
                     IF pending.num_guests < rsvps[e].num_guests
                     THEN e ELSE session[c].rsvp_id_for_removal]_vars

(* C22, amended: as above, but the access token is unchanged only when the    *)
(* reservation has one; a reservation without a token is given one, to which  *)
(* the cookie is bound, when the party size does not drop.                    *)
C22_MergeUpdate ==
    [][\A c \in Callers :
        LET pending == session[c].pending_rsvp[1]
            e == RsvpByEmail(rsvps, pending.email)
            drops == pending.num_guests < rsvps[e].num_guests
        IN  (/\ session[c].pending_rsvp # <<>>
             /\ e # 0
             /\ ConfirmUpdate(c, "POST", "update"))
            => /\ e \in DOMAIN rsvps'
               /\ rsvps' = [rsvps EXCEPT
                               ![e].name = pending.name,
                               ![e].num_guests = pending.num_guests,
                               ![e].rsvp_token =
                                   IF @ = 0 /\ ~drops THEN rsvps'[e].rsvp_token ELSE @]
               /\ (rsvps[e].rsvp_token = 0 /\ ~drops) =>
                     /\ rsvps'[e].rsvp_token # 0
                     /\ \A o \in DOMAIN rsvps : rsvps[o].rsvp_token # rsvps'[e].rsvp_token
                     /\ cookie'[c] = rsvps'[e].rsvp_token
               /\ UNCHANGED <<guests, prefs>>
               /\ session'[c].pending_rsvp = <<>>
               /\ session'[c].rsvp_id_for_removal =
                     IF drops THEN e ELSE session[c].rsvp_id_for_removal]_vars

\* the old reservation, merged under the other name, has grown to a party of two
\* after its payment was reported, and its guests are entered; the payment status
\* is as reported
C22_Witness ==
    /\ rsvps[1].name = NameJS
    /\ rsvps[1].num_guests = 2
    /\ rsvps[1].payment_status = "pending - cash"
    /\ rsvps[1].rsvp_token # 0
    /\ Cardinality(GuestsOf(guests, 1)) = 2
    /\ session[MergeGuest].pending_rsvp = <<>>
----------------------------------------------------------------------------
(* Reported payments: two browsers each create a reservation of their own,    *)
(* open the guest page with and without an rsvp_id in the URL, delete their   *)
(* reservation, add and remove a second guest and report payments by every    *)
(* method; the second may log in as the administrator and set statuses.       *)

MarkRsvp ==
    \E c \in Callers, action \in {"none", "delete"} :
        Rsvp(c, action, "POST", NameJS, OwnEmail[c], 1, OwnDigits[c])

MarkGuestInfo ==
    \E c \in Callers, rsvp_id_param \in {FormEmpty} \cup {FormInt(i) : i \in 1..MaxRsvps} :
        guest_info(c, rsvp_id_param, "GET", <<>>, "none", NoGuestForm)

MarkAddGuest == \E c \in Callers : add_guest(c)

MarkRemoveGuest2 == \E c \in Callers : remove_guest_2(c)

MarkMethods == {"cash", "Venmo", "check", "pending - cash", ""}

MarkPayment ==
    \E c \in Callers, payment_method \in MarkMethods : mark_payment(c, payment_method)

MarkAdminLogin == \E password_ok \in BOOLEAN : admin_login("u2", "POST", password_ok)

MarkTracking ==
    \E rsvp_id \in {FormInt(i) : i \in 1..MaxRsvps}, new_status \in PaymentStatuses :
        payment_tracking("u2", "POST", rsvp_id, new_status)

NextMark ==
    \/ MarkRsvp
    \/ MarkGuestInfo
    \/ MarkAddGuest
    \/ MarkRemoveGuest2
    \/ MarkPayment
    \/ MarkAdminLogin
    \/ MarkTracking

SpecMark == Init /\ [][NextMark]_vars

\* the status a reported payment by a method is stored as: f'pending - {method}'
PendingOf == [m \in {"cash", "Venmo"} |->
                 IF m = "cash" THEN "pending - cash" ELSE "pending - Venmo"]

(* C23: mark_payment with method 'cash' or 'Venmo' sets the status of the     *)
(* reservation the request resolves (the one whose token the cookie holds,    *)
(* else the one the session names) to 'pending - <method>' whatever it was,   *)
(* and changes nothing else; with another method, or when no reservation      *)
(* resolves, no reservation changes.                                          *)
C23_MarkPayment ==
    [][\A c \in Callers, m \in MarkMethods :
        LET by_cookie == {r \in DOMAIN rsvps :
                             cookie[c] # 0 /\ rsvps[r].rsvp_token = cookie[c]}
            by_session == {r \in DOMAIN rsvps : r = session[c].guest_info_rsvp_id}
            resolved == IF by_cookie # {} THEN by_cookie ELSE by_session
        IN  mark_payment(c, m) =>
                IF resolved # {} /\ m \in {"cash", "Venmo"}
                THEN \E r \in resolved :
                        /\ resolved = {r}
                        /\ rsvps' = [rsvps EXCEPT ![r].payment_status = PendingOf[m]]
                ELSE rsvps' = rsvps]_vars

\* a browser without a valid cookie whose session names a party of two with a
\* payment reported by Venmo, while the administrator is logged in
C23_Witness ==
    \E c \in Callers, r \in DOMAIN rsvps :
        /\ get_rsvp_from_cookie(c) = 0
        /\ session[c].guest_info_rsvp_id = r
        /\ rsvps[r].num_guests = 2
        /\ rsvps[r].payment_status = "pending - Venmo"
        /\ session["u2"].admin_authenticated
(* C24: a POST of the session-driven remove-guest flow deletes at most one    *)
(* guest record, and only one of the reservation queued in                    *)
(* rsvp_id_for_removal; a guest_id of another reservation's guest or of no    *)
(* guest deletes and renumbers nothing; in every case the POST clears         *)
(* rsvp_id_for_removal and leaves every party size unchanged.                 *)
C24_RemoveGuestFlow ==
    [][\A c \in Callers, guest_id \in RemoveGuestInputs :
        LET queued == session[c].rsvp_id_for_removal
            gone == DOMAIN guests \ DOMAIN guests'
            owned == /\ guest_id.kind = "int"
                     /\ guest_id.val \in DOMAIN guests
                     /\ guests[guest_id.val].rsvp_id = queued
        IN  (queued # 0 /\ remove_guest(c, "POST", guest_id))
            => /\ DOMAIN guests' \subseteq DOMAIN guests
               /\ Cardinality(gone) <= 1
               /\ \A k \in gone : guests[k].rsvp_id = queued
               /\ ~owned => guests' = guests
               /\ session'[c].rsvp_id_for_removal = 0
               /\ DOMAIN rsvps' = DOMAIN rsvps
               /\ \A r \in DOMAIN rsvps : rsvps'[r].num_guests = rsvps[r].num_guests]_vars

====
